---- MODULE Spec2Model ----
(***************************************************************************)
(* Subtitle segmentation and re-synchronisation engine of the subtitle     *)
(* generator: split_text_for_subtitles, find_natural_segments,             *)
(* estimate_translated_segment, create_srt_from_transcript_custom          *)
(* (src/app_backup.py), format_timestamp and create_srt_content            *)
(* (src/utils/transcription.py), and the video tab's request flow.         *)
(*                                                                         *)
(* A text is a sequence of characters.  A character is one of              *)
(*   "a"    a letter (any character that is neither white space nor a mark)*)
(*   "sp"   a space                 "nl"   a line break                    *)
(*   "dot"  an ASCII mark  . ! ?    "maru" a CJK mark  。！？              *)
(*   "ten"  a pause mark   、 :                                            *)
(* Times are integers (milliseconds, or ticks that divide the millisecond). *)
(* The word times of the recogniser are taken at their exact values and    *)
(* the arithmetic on them as exact; format_timestamp, whose last digit     *)
(* depends on it, is modelled with the rounding of IEEE doubles.           *)
(***************************************************************************)
EXTENDS Integers, Sequences, FiniteSets, TLC

VARIABLES
    pc,                 \* position of the operation under way
    text,               \* split_text_for_subtitles: the text argument
    max_chars_per_line, \* caption width argument
    max_lines,          \* caption height argument
    final_chunks,       \* split_text_for_subtitles: the returned captions
    word_list,              \* find_natural_segments: the word list
    translation,    \* find_natural_segments: the whole translated text
    natural_segments,           \* find_natural_segments: the returned natural_segments
    al_original,      \* estimate_translated_segment: the segment's original text
    al_full, \* estimate_translated_segment: the whole translated text
    al_index,      \* estimate_translated_segment: the segment's index
    al_total,     \* estimate_translated_segment: the count it is scaled by
    al_result,          \* estimate_translated_segment: the returned text
    transcription,         \* the speech recogniser's result: text, words, language
    source_language,    \* the language the user names as the source, or "auto"
    target_language,    \* the language of the subtitles
    srt_file,               \* create_srt_from_transcript_custom: the cues
    raised,             \* whether the builder raised instead of returning
    service_calls,      \* the texts sent to the translation service so far
    translated_so_far,  \* the request flow's translated_text
    ts_seconds,         \* format_timestamp: the seconds argument
    ts_string,          \* format_timestamp: the returned string
    content_segments,   \* create_srt_content: the segments argument
    content_cues,       \* create_srt_content: the cue blocks of the returned text
    translate_option,   \* process_video_subtitle: the translation the user chose
    srt_content_to_use, \* the result handed to create_srt_file
    stage_log,          \* the pipeline stages called so far, in order
    failed_stages,      \* the stages in which a failure occurred
    session_results,    \* the keys of st.session_state.results
    messages,           \* st.success and st.error of process_video_subtitle, in order
    temp_files,         \* the temporary files of the request that exist
    processing          \* st.session_state.processing

splitVars == <<text, max_chars_per_line, max_lines, final_chunks>>
segVars == <<word_list, translation, natural_segments>>
alignVars == <<al_original, al_full, al_index, al_total, al_result>>

srtVars == <<transcription, source_language, target_language, srt_file, raised, service_calls,
            translated_so_far>>

tsVars == <<ts_seconds, ts_string>>
contentVars == <<content_segments, content_cues>>

videoVars == <<translate_option, srt_content_to_use, stage_log, failed_stages, session_results,
              messages, temp_files, processing>>

vars == <<pc, splitVars, segVars, alignVars, srtVars, tsVars, contentVars, videoVars>>

\* A value for the variables an operation does not use.
Idle == <<>>

----------------------------------------------------------------------------
\* Bounds of the model.
MaxTextLen == 6
MaxCharsPerLine == 3
MaxLines == 2
MaxWords == 3
MaxAlignLen == 4
MaxSegmentIndex == 3
MaxContentSegments == 3
TicksPerMs == 4

----------------------------------------------------------------------------
\* Characters and Python's string helpers.

\* The characters split_text_for_subtitles tells apart: it treats every mark
\* of '。！？、.:!?' alike, and "dot" stands for them.
SplitChars == {"a", "sp", "nl", "dot"}

\* The white space characters, and str.isspace
WhiteSpace == {"sp", "nl"}
IsSpace(c) == c \in WhiteSpace

\* All texts of length 0..n over the alphabet cs.
TextsUpTo(cs, n) == UNION {[1..k -> cs] : k \in 0..n}

RECURSIVE lstrip(_)
lstrip(s) ==
    IF s = <<>> THEN <<>>
    ELSE IF IsSpace(Head(s)) THEN lstrip(Tail(s)) ELSE s

RECURSIVE rstrip(_)
rstrip(s) ==
    IF s = <<>> THEN <<>>
    ELSE IF IsSpace(s[Len(s)]) THEN rstrip(SubSeq(s, 1, Len(s) - 1)) ELSE s

\* str.strip()
strip(s) == rstrip(lstrip(s))

\* The first position from i on whose character is in cs (is not in cs, for
\* first_outside), or Len(s) + 1 when there is none.
first_in(s, i, cs) ==
    CHOOSE j \in i..(Len(s) + 1) :
        /\ j > Len(s) \/ s[j] \in cs
        /\ \A k \in i..(j - 1) : s[k] \notin cs

first_outside(s, i, cs) ==
    CHOOSE j \in i..(Len(s) + 1) :
        /\ j > Len(s) \/ s[j] \notin cs
        /\ \A k \in i..(j - 1) : s[k] \in cs

\* str.split(): the maximal runs of characters that are not white space, a
\* run at a time from position i on.
RECURSIVE split_ws(_, _, _)
split_ws(s, i, tokens) ==
    LET b == first_outside(s, i, WhiteSpace) IN
    IF b > Len(s) THEN tokens
    ELSE LET e == first_in(s, b, WhiteSpace) IN
         split_ws(s, e, Append(tokens, SubSeq(s, b, e - 1)))

split(s) == split_ws(s, 1, <<>>)

\* '\n'.join(lines)
RECURSIVE join_nl(_)
join_nl(lines) ==
    IF lines = <<>> THEN <<>>
    ELSE IF Len(lines) = 1 THEN lines[1]
    ELSE lines[1] \o <<"nl">> \o join_nl(Tail(lines))

\* lines[i:i+n] with a 0-based i, as Python slices.
Slice(lines, i, n) ==
    SubSeq(lines, i + 1, IF i + n < Len(lines) THEN i + n ELSE Len(lines))

\* The physical lines of a caption: its text cut at every line break, a line
\* at a time from position i on.
RECURSIVE physical_lines(_, _, _)
physical_lines(s, i, lines) ==
    LET e == first_in(s, i, {"nl"}) IN
    IF e > Len(s) THEN Append(lines, SubSeq(s, i, Len(s)))
    ELSE physical_lines(s, e + 1, Append(lines, SubSeq(s, i, e - 1)))

PhysicalLines(caption) == physical_lines(caption, 1, <<>>)

----------------------------------------------------------------------------
\* split_text_for_subtitles (src/app_backup.py:128-188)

\* '。！？、.:!?'
SplitPunct == {"maru", "ten", "dot"}

\* The loop over the characters, a sentence at a time: current_sentence is
\* the text from position i up to the next mark, and the trailing sentence the
\* text after the last mark.
RECURSIVE split_sentences(_, _, _)
split_sentences(t, i, sentences) ==
    LET m == first_in(t, i, SplitPunct) IN
    IF m > Len(t)
    THEN LET current_sentence == SubSeq(t, i, Len(t)) IN
         IF strip(current_sentence) # <<>>
         THEN Append(sentences, strip(current_sentence))
         ELSE sentences
    ELSE split_sentences(t, m + 1, Append(sentences, strip(SubSeq(t, i, m))))

\* The greedy packing of sentences into chunks of at most limit characters.
RECURSIVE pack_chunks(_, _, _, _, _)
pack_chunks(sentences, k, chunks, current_chunk, limit) ==
    IF k > Len(sentences)
    THEN IF current_chunk # <<>> THEN Append(chunks, strip(current_chunk)) ELSE chunks
    ELSE IF Len(current_chunk \o sentences[k]) <= limit
         THEN pack_chunks(sentences, k + 1, chunks, current_chunk \o sentences[k], limit)
         ELSE pack_chunks(sentences, k + 1,
                          IF current_chunk # <<>>
                          THEN Append(chunks, strip(current_chunk)) ELSE chunks,
                          sentences[k], limit)

\* The line a word joins or starts, and whether the word fits on current_line.
\* Variant: the fit is measured without the space that separates the words.
fits_on_line_no_space(current_line, word, width) ==
    Len(strip(current_line) \o word) <= width

\* len(current_line + word) <= max_chars_per_line
fits_on_line(current_line, word, width) ==
    Len(current_line \o word) <= width

\* The greedy word wrap of one chunk; current_line carries its trailing space.
RECURSIVE wrap_lines(_, _, _, _, _)
wrap_lines(words, k, lines, current_line, width) ==
    IF k > Len(words)
    THEN IF current_line # <<>> THEN Append(lines, strip(current_line)) ELSE lines
    ELSE IF fits_on_line(current_line, words[k], width)
         THEN wrap_lines(words, k + 1, lines, current_line \o words[k] \o <<"sp">>, width)
         ELSE wrap_lines(words, k + 1,
                         IF current_line # <<>>
                         THEN Append(lines, strip(current_line)) ELSE lines,
                         words[k] \o <<"sp">>, width)

RECURSIVE group_lines(_, _, _)

\* Variant: only the first max_lines lines are kept.
group_lines_first(lines, i, n) ==
    IF i >= Len(lines) THEN <<>>
    ELSE <<join_nl(Slice(lines, i, n))>>

\* for i in range(0, len(lines), max_lines): '\n'.join(lines[i:i+max_lines])
group_lines(lines, i, n) ==
    IF i >= Len(lines) THEN <<>>
    ELSE <<join_nl(Slice(lines, i, n))>> \o group_lines(lines, i + n, n)

\* Variant: a chunk that fits on one line is not emitted.
chunk_captions_long_only(chunk, width, height) ==
    IF Len(chunk) <= width THEN <<>>
    ELSE LET lines == wrap_lines(split(chunk), 1, <<>>, <<>>, width) IN
         IF Len(lines) <= height THEN <<join_nl(lines)>>
         ELSE group_lines(lines, 0, height)

\* The captions one chunk gives.
chunk_captions(chunk, width, height) ==
    IF Len(chunk) <= width THEN <<chunk>>
    ELSE LET lines == wrap_lines(split(chunk), 1, <<>>, <<>>, width) IN
         IF Len(lines) <= height THEN <<join_nl(lines)>>
         ELSE group_lines(lines, 0, height)

RECURSIVE line_split(_, _, _, _)
line_split(chunks, k, width, height) ==
    IF k > Len(chunks) THEN <<>>
    ELSE chunk_captions(chunks[k], width, height) \o line_split(chunks, k + 1, width, height)

split_text_for_subtitles(t, width, height) ==
    LET sentences == split_sentences(t, 1, <<>>)
        chunks == pack_chunks(sentences, 1, <<>>, <<>>, width * height)
    IN  line_split(chunks, 1, width, height)

----------------------------------------------------------------------------
\* estimate_translated_segment (src/app_backup.py:412-445)

\* Times are in milliseconds; a second of the source is MsPerSecond of them.
MsPerSecond == 1000

\* The character class of re.split(r'[。！？\.\!\?]+', ...)
AlignPunct == {"maru", "dot"}

\* The marks the proportional fallback looks for: '。！？'
FallbackPunct == {"maru"}

\* The half width, in characters, of the fallback's window.
Window == 50

Max(a, b) == IF a >= b THEN a ELSE b
Min(a, b) == IF a <= b THEN a ELSE b

\* s[a:b] with 0-based a and b, as Python slices (0 <= a, 0 <= b).
PySlice(s, a, b) ==
    IF a >= Min(b, Len(s)) THEN <<>> ELSE SubSeq(s, a + 1, Min(b, Len(s)))

\* re.split on runs of marks: the pieces between the runs.
RECURSIVE re_split(_, _, _, _)
re_split(s, i, parts, cur) ==
    IF i > Len(s) THEN Append(parts, cur)
    ELSE IF s[i] \in AlignPunct
         THEN IF i > 1 /\ s[i - 1] \in AlignPunct
              THEN re_split(s, i + 1, parts, cur)
              ELSE re_split(s, i + 1, Append(parts, cur), <<>>)
         ELSE re_split(s, i + 1, parts, Append(cur, s[i]))

\* [s.strip() for s in sentences if s.strip()]
RECURSIVE strip_nonempty(_)
strip_nonempty(parts) ==
    IF parts = <<>> THEN <<>>
    ELSE IF strip(Head(parts)) # <<>>
         THEN <<strip(Head(parts))>> \o strip_nonempty(Tail(parts))
         ELSE strip_nonempty(Tail(parts))

\* for i in range(char_position, end_pos): the first mark's 0-based position,
\* or end_pos when there is none.
RECURSIVE first_mark(_, _, _)
first_mark(s, i, end_pos) ==
    IF i >= end_pos THEN end_pos
    ELSE IF s[i + 1] \in FallbackPunct THEN i ELSE first_mark(s, i + 1, end_pos)

\* The branch taken when there are more segments than translated sentences.
proportional_fallback(full_translated_text, segment_index, total_segments) ==
    LET char_position ==
            (Len(full_translated_text) * segment_index) \div Max(total_segments, 1)
        start_pos == Max(0, char_position - Window)
        end_pos == Min(Len(full_translated_text), char_position + Window)
        i == first_mark(full_translated_text, char_position, end_pos)
    IN  IF char_position < end_pos /\ i < end_pos
        THEN strip(PySlice(full_translated_text, start_pos, i + 1))
        ELSE strip(PySlice(full_translated_text, start_pos, end_pos))

estimate_translated_segment(original_text, full_translated_text, segment_index, total_segments) ==
    LET sentences == strip_nonempty(re_split(full_translated_text, 1, <<>>, <<>>)) IN
    IF sentences = <<>> THEN original_text
    ELSE IF segment_index < Len(sentences)
         THEN IF segment_index < Len(sentences) - 1
              THEN sentences[segment_index + 1] \o <<"maru">>
              ELSE sentences[segment_index + 1]
         ELSE proportional_fallback(full_translated_text, segment_index, total_segments)

----------------------------------------------------------------------------
\* find_natural_segments (src/app_backup.py:341-410)

\* The marks that end a sentence: ('。', '！', '？', '.', '!', '?')
SentenceEndPunct == {"maru", "dot"}

MinSentenceMs == 1500   \* segment_duration >= 1.5
MinPauseSegmentMs == 2000   \* segment_duration >= 2.0
PauseMs == 1000   \* pause_duration > 1.0
MaxSegmentMs == 6000   \* segment_duration > 6.0

\* getattr(word, 'start', i) and getattr(word, 'end', i+1), i 0-based: a word
\* that carries no time gets its position, in seconds.
word_start_of(w, i) == IF "start" \in DOMAIN w THEN w.start ELSE i * MsPerSecond
word_end_of(w, i) == IF "end" \in DOMAIN w THEN w.end ELSE (i + 1) * MsPerSecond

\* word_text.strip().endswith(('。', '！', '？', '.', '!', '?'))
is_sentence_end(word_text) ==
    LET t == strip(word_text) IN t # <<>> /\ t[Len(t)] \in SentenceEndPunct

\* Variant: a pause of exactly the threshold counts as a pause.
is_pause_after_inclusive(words, i, word_end) ==
    /\ i < Len(words) - 1
    /\ word_start_of(words[i + 2], i + 1) - word_end >= PauseMs

\* pause_duration > 1.0, for a word that is not the last one.
is_pause_after(words, i, word_end) ==
    /\ i < Len(words) - 1
    /\ word_start_of(words[i + 2], i + 1) - word_end > PauseMs

\* Variant: the sentence end and the pause break a segment of any duration.
should_break_any_duration(words, i, segment_start) ==
    LET w == words[i + 1]
        word_end == word_end_of(w, i)
        segment_duration == word_end - segment_start
    IN  \/ is_sentence_end(w.word)
        \/ is_pause_after(words, i, word_end)
        \/ segment_duration > MaxSegmentMs
        \/ i = Len(words) - 1

\* 区切り条件
should_break(words, i, segment_start) ==
    LET w == words[i + 1]
        word_end == word_end_of(w, i)
        segment_duration == word_end - segment_start
    IN  \/ is_sentence_end(w.word) /\ segment_duration >= MinSentenceMs
        \/ is_pause_after(words, i, word_end) /\ segment_duration >= MinPauseSegmentMs
        \/ segment_duration > MaxSegmentMs
        \/ i = Len(words) - 1

\* len([w for w in words if getattr(w, 'start', 0) <= word_end])
words_started_by(words, word_end) ==
    Cardinality({k \in 1..Len(words) :
                    (IF "start" \in DOMAIN words[k] THEN words[k].start ELSE 0) <= word_end})

\* Variant: the segment start is not moved when a segment closes.
next_segment_start_kept(words, i, segment_start) == segment_start

\* The segment start after the word at i closed a segment.
next_segment_start(words, i, segment_start) ==
    IF i = Len(words) - 1 THEN segment_start ELSE word_end_of(words[i + 1], i)

\* The loop over the words, i 0-based.
RECURSIVE segment_loop(_, _, _, _, _, _)
segment_loop(words, translated_text, i, segments, current_original_text, segment_start) ==
    IF i >= Len(words) THEN segments
    ELSE LET w == words[i + 1]
             start0 == IF i = 0 THEN word_start_of(w, i) ELSE segment_start
             word_end == word_end_of(w, i)
             original == current_original_text \o w.word \o <<"sp">>
         IN  IF should_break(words, i, start0)
             THEN segment_loop(words, translated_text, i + 1,
                      Append(segments,
                             [start |-> start0,
                              end |-> word_end,
                              original_text |-> strip(original),
                              translated_text |->
                                  estimate_translated_segment(
                                      strip(original), translated_text, Len(segments),
                                      words_started_by(words, word_end))]),
                      <<>>, next_segment_start(words, i, start0))
             ELSE segment_loop(words, translated_text, i + 1, segments, original, start0)

\* Variant: the loop starts at the second word.
find_natural_segments_from_second(words, translated_text) ==
    segment_loop(words, translated_text, 1, <<>>, <<>>, 0)

find_natural_segments(words, translated_text) ==
    segment_loop(words, translated_text, 0, <<>>, <<>>, 0)

----------------------------------------------------------------------------
\* translate_with_claude (src/app_backup.py:87-126)

\* Whether the call reaches the translation service: not for equal languages.
calls_service(source_lang, target_lang) == source_lang # target_lang

\* The returned text; reply is what the service does: it answers with
\* reply.text, or it fails and the text comes back untranslated.
translate_with_claude(t, source_lang, target_lang, reply) ==
    IF source_lang = target_lang THEN t
    ELSE IF reply.ok THEN strip(reply.text) ELSE t

----------------------------------------------------------------------------
\* Python's float arithmetic: IEEE 754 doubles, every operation rounded to
\* the nearest double, ties to the even significand.  A double is the record
\* [m, e] that stands for m * 2^e; its significand m, of up to 53 bits, is
\* kept as a sequence of limbs, the least significant one first.  Only the
\* values the code computes with occur: times, which are not negative.

\* The explicit bits of a double's significand.
MantissaBits == 52

\* The bits of a limb.
LimbBits == 15

pow2(n) == 2 ^ n

\* The e with 2^e <= n < 2^(e+1), n >= 1.
RECURSIVE ilog2(_)
ilog2(n) == IF n < 2 THEN 0 ELSE 1 + ilog2(n \div 2)

LimbBase == pow2(LimbBits)

\* The limbs of n >= 0, and the number a short limb sequence stands for.
RECURSIVE limbs_of(_)
limbs_of(n) == IF n = 0 THEN <<>> ELSE <<n % LimbBase>> \o limbs_of(n \div LimbBase)

RECURSIVE int_of(_)
int_of(x) == IF x = <<>> THEN 0 ELSE Head(x) + LimbBase * int_of(Tail(x))

\* x without the zero limbs at its high end.
RECURSIVE trim(_)
trim(x) == IF x # <<>> /\ x[Len(x)] = 0 THEN trim(SubSeq(x, 1, Len(x) - 1)) ELSE x

\* The number of bits of every limb, and of x.
limb_bits == [n \in 0..LimbBase |-> IF n = 0 THEN 0 ELSE ilog2(n) + 1]

bit_length(x) == IF x = <<>> THEN 0 ELSE (Len(x) - 1) * LimbBits + limb_bits[x[Len(x)]]

\* x + y + carry
RECURSIVE limbs_add(_, _, _)
limbs_add(x, y, carry) ==
    IF x = <<>> /\ y = <<>> THEN limbs_of(carry)
    ELSE LET a == IF x = <<>> THEN 0 ELSE Head(x)
             b == IF y = <<>> THEN 0 ELSE Head(y)
             sum == a + b + carry
         IN  <<sum % LimbBase>>
                 \o limbs_add(IF x = <<>> THEN x ELSE Tail(x),
                              IF y = <<>> THEN y ELSE Tail(y), sum \div LimbBase)

\* x - y - borrow, for x >= y + borrow
RECURSIVE limbs_sub(_, _, _)
limbs_sub(x, y, borrow) ==
    IF x = <<>> THEN <<>>
    ELSE LET b == IF y = <<>> THEN 0 ELSE Head(y)
             diff == Head(x) - b - borrow
         IN  <<diff % LimbBase>>
                 \o limbs_sub(Tail(x), IF y = <<>> THEN y ELSE Tail(y),
                              IF diff < 0 THEN 1 ELSE 0)

\* x * c + carry, for 0 <= c <= LimbBase
RECURSIVE limbs_mul(_, _, _)
limbs_mul(x, c, carry) ==
    IF x = <<>> THEN limbs_of(carry)
    ELSE LET product == Head(x) * c + carry IN
         <<product % LimbBase>> \o limbs_mul(Tail(x), c, product \div LimbBase)

\* The quotient and the remainder of x by d, for 0 < d <= LimbBase
RECURSIVE limbs_divmod(_, _)
limbs_divmod(x, d) ==
    IF x = <<>> \/ d = 1 THEN [q |-> x, r |-> 0]
    ELSE LET high == limbs_divmod(Tail(x), d)
             cur == high.r * LimbBase + Head(x)
         IN  [q |-> <<cur \div d>> \o high.q, r |-> cur % d]

\* x * 2^k
shift_left(x, k) ==
    IF x = <<>> \/ k = 0 THEN x
    ELSE [i \in 1..(k \div LimbBits) |-> 0] \o trim(limbs_mul(x, pow2(k % LimbBits), 0))

\* x \div 2^k, and whether a bit was shifted out.
shift_right(x, k) ==
    LET whole == Min(k \div LimbBits, Len(x))
        dropped == SubSeq(x, 1, whole)
        dm == limbs_divmod(SubSeq(x, whole + 1, Len(x)), pow2(k % LimbBits))
    IN  [q |-> trim(dm.q),
         sticky |-> dm.r # 0 \/ \E i \in 1..whole : dropped[i] # 0]

is_odd(x) == x # <<>> /\ Head(x) % 2 = 1

\* The double nearest to n / d * 2^e, for limbs n and 0 < d <= LimbBase.
float_round(n, d, e) ==
    IF trim(n) = <<>> THEN [m |-> <<>>, e |-> 0]
    ELSE IF d = 1 /\ bit_length(trim(n)) <= MantissaBits + 1 THEN [m |-> trim(n), e |-> e]
    ELSE LET numerator == trim(n)
             t == IF d = 1 THEN 0
                  ELSE Max(0, MantissaBits + 2 + limb_bits[d] - bit_length(numerator))
             dm == limbs_divmod(shift_left(numerator, t), d)
             quotient == trim(dm.q)
             extra == bit_length(quotient) - (MantissaBits + 1)
             above == shift_right(quotient, extra - 1)
             kept == shift_right(above.q, 1).q
             sticky == above.sticky \/ dm.r # 0
             up == is_odd(above.q) /\ (sticky \/ is_odd(kept))
         IN  [m |-> IF up THEN trim(limbs_add(kept, <<1>>, 0)) ELSE kept,
              e |-> e - t + extra]

\* float(k / d) for whole numbers k >= 0 and d > 0, as in 30 / len(chunks),
\* and the double of a time of k milliseconds.
float_ratio(k, d) == float_round(limbs_of(k), d, 0)
float_of_ms(k) == float_ratio(k, MsPerSecond)

\* a + b and a - b (for a >= b)
float_add(a, b) ==
    LET e == Min(a.e, b.e) IN
    float_round(limbs_add(shift_left(a.m, a.e - e), shift_left(b.m, b.e - e), 0), 1, e)

float_sub(a, b) ==
    LET e == Min(a.e, b.e) IN
    float_round(limbs_sub(shift_left(a.m, a.e - e), shift_left(b.m, b.e - e), 0), 1, e)

\* a * c and a / c for a whole number c, which float() holds exactly.
float_mul_int(a, c) == float_round(limbs_mul(a.m, c, 0), 1, a.e)
float_div_int(a, c) == float_round(a.m, c, a.e)

\* int(a)
float_int(a) ==
    IF a.e >= 0 THEN int_of(shift_left(a.m, a.e)) ELSE int_of(shift_right(a.m, 0 - a.e).q)

----------------------------------------------------------------------------
\* The word timelines of the bounded transcriptions.

MaxSrtWords == 2

\* The word_list of a list of shapes, the first pause counted from time `from`.
RECURSIVE timeline(_, _)
timeline(shapes, from) ==
    IF shapes = <<>> THEN <<>>
    ELSE LET h == Head(shapes)
             w == [word |-> h.word, start |-> from + h.gap, end |-> from + h.gap + h.dur]
         IN  <<w>> \o timeline(Tail(shapes), w.end)

SrtShapes == [gap : {0, 1500}, dur : {0, 6500}, word : {<<>>, <<"a">>, <<"a", "dot">>}]
SrtTimelines(n) ==
    {timeline(shapes, 0) : shapes \in UNION {[1..k -> SrtShapes] : k \in 0..n}}

\* The times their words hold.
SrtTimes ==
    UNION {UNION {{ws[i].start, ws[i].end} : i \in 1..Len(ws)} :
               ws \in SrtTimelines(MaxSrtWords)}

----------------------------------------------------------------------------
\* create_srt_from_transcript_custom (src/app_backup.py:259-339)

\* The default window of a transcript without words, and the least length of
\* one of its cues, in seconds.
TotalDurationSeconds == 30
MinChunkSeconds == 2

\* getattr(transcript, 'language', source_lang), then the language that counts
\* as the source.
actual_source_lang(transcript, source_lang) ==
    LET detected_language ==
            IF "language" \in DOMAIN transcript THEN transcript.language ELSE source_lang
    IN  IF source_lang = "auto" THEN detected_language ELSE source_lang

need_translation(actual, target_lang) ==
    ~ \/ actual = target_lang
      \/ actual = "ja" /\ target_lang = "ja"
      \/ actual = "japanese" /\ target_lang = "ja"

\* Whether the builder translates: need_translation and full_text.strip()
builder_translates(transcript, source_lang, target_lang) ==
    /\ need_translation(actual_source_lang(transcript, source_lang), target_lang)
    /\ strip(transcript.text) # <<>>

\* int(i * duration_per_chunk * 1000) with
\* duration_per_chunk = max(2, total_duration / len(chunks)), n = len(chunks)
no_words_ms(i, n) ==
    IF MinChunkSeconds * n <= TotalDurationSeconds
    THEN float_int(float_mul_int(float_mul_int(float_ratio(TotalDurationSeconds, n), i),
                                 MsPerSecond))
    ELSE i * MinChunkSeconds * MsPerSecond

\* The cues of a transcript without words.
no_words_cues(chunks) ==
    [i \in 1..Len(chunks) |->
        [index |-> i,
         start |-> no_words_ms(i - 1, Len(chunks)),
         end |-> no_words_ms(i, Len(chunks)),
         text |-> chunks[i]]]

\* int(seconds * 1000) for the time of ms milliseconds; the values for the
\* times of the bounded timelines are computed once.
ordinal_of(ms) == float_int(float_mul_int(float_of_ms(ms), MsPerSecond))

ordinals == [ms \in SrtTimes |-> ordinal_of(ms)]

ordinal(ms) == IF ms \in SrtTimes THEN ordinals[ms] ELSE ordinal_of(ms)

\* int((segment['start'] + j * chunk_duration) * 1000), start and
\* chunk_duration being doubles
chunk_ms(start, chunk_duration, j) ==
    float_int(float_mul_int(float_add(start, float_mul_int(chunk_duration, j)), MsPerSecond))

\* The n + 1 times that bound the n chunks of a segment that does not end
\* before it starts.
chunk_bounds_of(segment_start, segment_end, n) ==
    LET start == float_of_ms(segment_start)
        chunk_duration == float_div_int(float_sub(float_of_ms(segment_end), start), n)
    IN  [j \in 0..n |-> chunk_ms(start, chunk_duration, j)]

\* The same for the spans of the bounded timelines, computed once.
MemoChunks == 2..6

chunk_bounds_memo ==
    [s \in SrtTimes, e \in SrtTimes, n \in MemoChunks |->
        IF s <= e THEN chunk_bounds_of(s, e, n) ELSE <<>>]

chunk_bounds(segment_start, segment_end, n) ==
    IF segment_start \in SrtTimes /\ segment_end \in SrtTimes /\ n \in MemoChunks
    THEN chunk_bounds_memo[segment_start, segment_end, n]
    ELSE chunk_bounds_of(segment_start, segment_end, n)

\* The cues of one segment that gave n # 1 chunks, numbered from subtitle_index:
\* the end of a cue and the start of the next one are the same expression.
chunk_cues(segment, subtitle_chunks, subtitle_index) ==
    LET n == Len(subtitle_chunks)
        bounds == chunk_bounds(segment.start, segment.end, n)
    IN  [j \in 1..n |->
            [index |-> subtitle_index + j - 1,
             start |-> bounds[j - 1],
             end |-> bounds[j],
             text |-> subtitle_chunks[j]]]

\* Variant: the running index is not advanced.
next_subtitle_index_kept(subtitle_index) == subtitle_index

\* The index the cue after one emitted cue gets.
next_subtitle_index(subtitle_index) == subtitle_index + 1

\* The loop over the natural segments.  A segment whose text gives no chunk
\* divides by len(subtitle_chunks) = 0: ZeroDivisionError.
RECURSIVE segment_cues(_, _, _, _, _, _)
segment_cues(natural, k, subs, subtitle_index, width, height) ==
    IF k > Len(natural) THEN [subs |-> subs, raised |-> FALSE]
    ELSE LET segment == natural[k]
             subtitle_chunks ==
                 split_text_for_subtitles(segment.translated_text, width, height)
         IN  IF Len(subtitle_chunks) = 1
             THEN segment_cues(natural, k + 1,
                      Append(subs, [index |-> subtitle_index,
                                    start |-> ordinal(segment.start),
                                    end |-> ordinal(segment.end),
                                    text |-> subtitle_chunks[1]]),
                      next_subtitle_index(subtitle_index), width, height)
             ELSE IF Len(subtitle_chunks) = 0
                  THEN [subs |-> subs, raised |-> TRUE]
                  ELSE segment_cues(natural, k + 1,
                           subs \o chunk_cues(segment, subtitle_chunks, subtitle_index),
                           subtitle_index + Len(subtitle_chunks), width, height)

\* The builder: what it returns (subs), whether it raised instead, and the
\* texts it sent to the translation service (calls).
create_srt_from_transcript_custom(transcript, source_lang, target_lang, width, height, reply) ==
    LET actual == actual_source_lang(transcript, source_lang)
        translates == builder_translates(transcript, source_lang, target_lang)
        full_text == transcript.text
        full_translated ==
            IF translates
            THEN translate_with_claude(full_text, actual, target_lang, reply)
            ELSE full_text
        calls ==
            IF translates /\ calls_service(actual, target_lang)
            THEN <<full_text>> ELSE <<>>
    IN  IF transcript.words = <<>>
        THEN [subs |-> no_words_cues(
                           split_text_for_subtitles(full_translated, width, height)),
              raised |-> FALSE,
              calls |-> calls]
        ELSE LET r == segment_cues(find_natural_segments(transcript.words, full_translated),
                                   1, <<>>, 1, width, height)
             IN  [subs |-> r.subs, raised |-> r.raised, calls |-> calls]

----------------------------------------------------------------------------
\* format_timestamp (src/utils/transcription.py:355-366)
\* A number handed to format_timestamp is the decimal t / TicksPerSecond
\* seconds, t a whole number of ticks, TicksPerMs of them to the millisecond;
\* float() stores the IEEE double nearest to it.

TicksPerSecond == TicksPerMs * MsPerSecond

SecondsPerHour == 3600
SecondsPerMinute == 60

\* The values format_timestamp is called with: a number, or a value float()
\* raises ValueError or TypeError on (None, a text that is no number, a list).
number(t) == [type |-> "float", ticks |-> t]
NonNumeric == {[type |-> "NoneType"], [type |-> "str"], [type |-> "list"]}

DigitChars == <<"0", "1", "2", "3", "4", "5", "6", "7", "8", "9">>

\* The decimal digits of n >= 0.
RECURSIVE decimal(_)
decimal(n) ==
    IF n < 10 THEN <<DigitChars[n + 1]>>
    ELSE decimal(n \div 10) \o <<DigitChars[(n % 10) + 1]>>

\* The format {n:0<width>d}: at least width digits, zeros in front.
RECURSIVE zero_pad(_, _)
zero_pad(digits, width) ==
    IF Len(digits) >= width THEN digits ELSE zero_pad(<<"0">> \o digits, width)

\* 2^k modulo m
RECURSIVE pow2mod(_, _)
pow2mod(k, m) == IF k = 0 THEN 1 % m ELSE (2 * pow2mod(k - 1, m)) % m

\* The least j with t * 2^j >= TicksPerSecond, for 0 < t < TicksPerSecond.
RECURSIVE shift_to_one(_, _)
shift_to_one(t, j) ==
    IF t * pow2(j) >= TicksPerSecond THEN j ELSE shift_to_one(t, j + 1)

\* The binary exponent of the double of t > 0 ticks: 2^e <= seconds < 2^(e+1).
float_exponent(t) ==
    IF t >= TicksPerSecond THEN ilog2(t \div TicksPerSecond) ELSE 0 - shift_to_one(t, 0)

\* float(seconds) - seconds, in units of ulp / TicksPerSecond: the double is
\* the multiple of its ulp nearest to the decimal, ties to the even one.
float_error(t) ==
    LET k == MantissaBits - float_exponent(t)
        x == ((t % (2 * TicksPerSecond)) * pow2mod(k, 2 * TicksPerSecond))
                 % (2 * TicksPerSecond)
        r == x % TicksPerSecond
    IN  IF 2 * r < TicksPerSecond THEN 0 - r
        ELSE IF 2 * r > TicksPerSecond THEN TicksPerSecond - r
        ELSE IF x < TicksPerSecond THEN 0 - r ELSE TicksPerSecond - r

\* Whether (seconds % 1) * 1000 comes out below the whole millisecond m the
\* decimal names: the double lies below the decimal, and the product, rounded
\* to the nearest double, stays below m (a tie goes to m, the even one).
product_below_ms(t) ==
    /\ t % TicksPerMs = 0
    /\ t % TicksPerSecond # 0
    /\ float_error(t) < 0
    /\ LET m == (t % TicksPerSecond) \div TicksPerMs
           sh == float_exponent(t) - ilog2(m) + (IF m = pow2(ilog2(m)) THEN 2 ELSE 1)
       IN  IF sh >= 0
           THEN 0 - float_error(t) > TicksPerMs \div pow2(sh)
           ELSE 0 - float_error(t) > TicksPerMs * pow2(0 - sh)

\* int(seconds // 3600)
ts_hours(t) == (t \div TicksPerSecond) \div SecondsPerHour

\* Variant: the minutes are not reduced modulo the hour.
ts_minutes_unreduced(t) == (t \div TicksPerSecond) \div SecondsPerMinute

\* int((seconds % 3600) // 60)
ts_minutes(t) == ((t \div TicksPerSecond) % SecondsPerHour) \div SecondsPerMinute

\* int(seconds % 60)
ts_secs(t) == (t \div TicksPerSecond) % SecondsPerMinute

\* int((seconds % 1) * 1000)
ts_millisecs(t) ==
    (t % TicksPerSecond) \div TicksPerMs - (IF product_below_ms(t) THEN 1 ELSE 0)

\* The f-string of the return statement.
timestamp_string(hours, minutes, secs, millisecs) ==
    zero_pad(decimal(hours), 2) \o <<":">> \o
    zero_pad(decimal(minutes), 2) \o <<":">> \o
    zero_pad(decimal(secs), 2) \o <<",">> \o
    zero_pad(decimal(millisecs), 3)

\* Variant: the sign is dropped instead of the negative time.
clamp_negative_abs(t) == IF t < 0 THEN 0 - t ELSE t

\* max(0, float(seconds))
clamp_negative(t) == Max(0, t)

format_timestamp(seconds) ==
    IF seconds \in NonNumeric
    THEN timestamp_string(0, 0, 0, 0)
    ELSE LET t == clamp_negative(seconds.ticks) IN
         timestamp_string(ts_hours(t), ts_minutes(t), ts_secs(t), ts_millisecs(t))

----------------------------------------------------------------------------
\* create_srt_content (src/utils/transcription.py:368-390)

\* segment.get(key, 0)
segment_time(segment, key) == IF key \in DOMAIN segment THEN segment[key] ELSE 0

\* str(segment.get('text', '')).strip()
segment_text(segment) == IF "text" \in DOMAIN segment THEN strip(segment.text) ELSE <<>>

\* for i, segment in enumerate(segments, 1): the cue blocks written, each with
\* the number on its first line.
RECURSIVE content_loop(_, _, _)
content_loop(segs, i, srt_content) ==
    IF i > Len(segs) THEN srt_content
    ELSE IF segment_text(segs[i]) # <<>>
         THEN content_loop(segs, i + 1,
                  Append(srt_content,
                         [index |-> i,
                          start |-> format_timestamp(number(segment_time(segs[i], "start"))),
                          end |-> format_timestamp(number(segment_time(segs[i], "end"))),
                          text |-> segment_text(segs[i])]))
         ELSE content_loop(segs, i + 1, srt_content)

create_srt_content(segs) ==
    IF segs = <<>> THEN <<>> ELSE content_loop(segs, 1, <<>>)

----------------------------------------------------------------------------
\* create_srt_file (src/utils/video_processing.py:148-184)

\* The times of the single cue written for a result without segments:
\* "1\n00:00:00,000 --> 00:10:00,000\n" + text
FallbackStart == <<"0", "0", ":", "0", "0", ":", "0", "0", ",", "0", "0", "0">>
FallbackEnd == <<"0", "0", ":", "1", "0", ":", "0", "0", ",", "0", "0", "0">>

\* The cue blocks of srt_content.
file_srt_content(transcription_result) ==
    IF /\ "segments" \in DOMAIN transcription_result
       /\ transcription_result.segments # <<>>
    THEN create_srt_content(transcription_result.segments)
    ELSE LET t == IF "text" \in DOMAIN transcription_result
                  THEN transcription_result.text ELSE <<>>
         IN  IF t # <<>>
             THEN <<[index |-> 1, start |-> FallbackStart, end |-> FallbackEnd, text |-> t]>>
             ELSE <<>>

\* What is written to the file, and whether ValueError is raised instead
\* because there is nothing to write.
create_srt_file(transcription_result) ==
    LET srt_content == file_srt_content(transcription_result) IN
    [srt_content |-> srt_content, raised |-> srt_content = <<>>]

----------------------------------------------------------------------------
\* The text segmenter applied to every bounded input.

SplitIdle ==
    /\ text = Idle
    /\ max_chars_per_line = 1
    /\ max_lines = 1
    /\ final_chunks = Idle

SegIdle ==
    /\ word_list = Idle
    /\ translation = Idle
    /\ natural_segments = Idle

AlignIdle ==
    /\ al_original = Idle
    /\ al_full = Idle
    /\ al_index = 0
    /\ al_total = 0
    /\ al_result = Idle

SrtIdle ==
    /\ transcription = Idle
    /\ source_language = "auto"
    /\ target_language = "ja"
    /\ srt_file = Idle
    /\ raised = FALSE
    /\ service_calls = <<>>
    /\ translated_so_far = Idle

TsIdle ==
    /\ ts_seconds = number(0)
    /\ ts_string = Idle

ContentIdle ==
    /\ content_segments = Idle
    /\ content_cues = Idle

VideoIdle ==
    /\ translate_option = "none"
    /\ srt_content_to_use = Idle
    /\ stage_log = <<>>
    /\ failed_stages = {}
    /\ session_results = {}
    /\ messages = <<>>
    /\ temp_files = {}
    /\ processing = FALSE

InitSplit ==
    /\ VideoIdle
    /\ pc = "split"
    /\ text \in TextsUpTo(SplitChars, MaxTextLen)
    /\ max_chars_per_line \in 1..MaxCharsPerLine
    /\ max_lines \in 1..MaxLines
    /\ final_chunks = Idle
    /\ SegIdle
    /\ AlignIdle
    /\ SrtIdle
    /\ TsIdle
    /\ ContentIdle

SplitText ==
    /\ pc = "split"
    /\ final_chunks' = split_text_for_subtitles(text, max_chars_per_line, max_lines)
    /\ pc' = "split_done"
    /\ UNCHANGED <<text, max_chars_per_line, max_lines, segVars, alignVars, srtVars, tsVars,
                   contentVars, videoVars>>

NextSplit == SplitText

SpecSplit == InitSplit /\ [][NextSplit]_vars

----------------------------------------------------------------------------
\* The text segmenter with its default width and height (max_chars_per_line=20,
\* max_lines=2) applied to texts of 100 characters without a mark.

\* n letters, n spaces
RECURSIVE letters(_)
letters(n) == IF n = 0 THEN <<>> ELSE <<"a">> \o letters(n - 1)

RECURSIVE spaces(_)
spaces(n) == IF n = 0 THEN <<>> ELSE <<"sp">> \o spaces(n - 1)

\* The pieces the texts are made of: a word and a space, white space alone,
\* three short lines.
ScenarioPieces ==
    {letters(9) \o <<"sp">>,
     letters(19) \o <<"sp">>,
     letters(24) \o <<"sp">>,
     letters(49) \o <<"sp">>,
     spaces(20),
     <<"a", "nl", "a", "nl", "a">> \o spaces(15)}

\* The texts of exactly n characters made of the pieces.
RECURSIVE pieces_texts(_)
pieces_texts(n) ==
    IF n = 0 THEN {<<>>}
    ELSE UNION {{piece \o rest : rest \in pieces_texts(n - Len(piece))} :
                   piece \in {q \in ScenarioPieces : Len(q) <= n}}

InitScenarioC ==
    /\ VideoIdle
    /\ pc = "scenario"
    /\ text \in pieces_texts(100)
    /\ max_chars_per_line = 20
    /\ max_lines = 2
    /\ final_chunks = Idle
    /\ SegIdle
    /\ AlignIdle
    /\ SrtIdle
    /\ TsIdle
    /\ ContentIdle

SplitScenarioText ==
    /\ pc = "scenario"
    /\ final_chunks' = split_text_for_subtitles(text, max_chars_per_line, max_lines)
    /\ pc' = "scenario_done"
    /\ UNCHANGED <<text, max_chars_per_line, max_lines, segVars, alignVars, srtVars, tsVars,
                   contentVars, videoVars>>

NextScenarioC == SplitScenarioText

SpecScenarioC == InitScenarioC /\ [][NextScenarioC]_vars

----------------------------------------------------------------------------
\* The boundary detector applied to every bounded non-decreasing word timeline.

\* The pause before a word and the length of a word, in milliseconds.
Gaps == {0, 1000, 1500}
Durations == {0, 500, 1500, 6500}
WordTexts == {<<"a">>, <<"a", "dot">>}
SegTranslations == {<<>>, <<"a", "maru", "a", "dot">>}

WordShapes == [gap : Gaps, dur : Durations, word : WordTexts]

Timelines(n) == {timeline(shapes, 0) : shapes \in UNION {[1..k -> WordShapes] : k \in 0..n}}

\* start_i <= end_i <= start_{i+1}
NonDecreasing(ws) ==
    /\ \A k \in 1..Len(ws) : ws[k].start <= ws[k].end
    /\ \A k \in 1..Len(ws) - 1 : ws[k].end <= ws[k + 1].start

InitSeg ==
    /\ VideoIdle
    /\ pc = "segment"
    /\ word_list \in Timelines(MaxWords)
    /\ translation \in SegTranslations
    /\ natural_segments = Idle
    /\ SplitIdle
    /\ AlignIdle
    /\ SrtIdle
    /\ TsIdle
    /\ ContentIdle

FindNaturalSegments ==
    /\ pc = "segment"
    /\ natural_segments' = find_natural_segments(word_list, translation)
    /\ pc' = "segment_done"
    /\ UNCHANGED <<word_list, translation, splitVars, alignVars, srtVars, tsVars, contentVars,
                   videoVars>>

NextSeg == FindNaturalSegments

SpecSeg == InitSeg /\ [][NextSeg]_vars

----------------------------------------------------------------------------
\* The boundary detector applied to the two words '速い' (0.0 to 0.5) and
\* '。' (0.5 to 0.6), alone or followed by one last word that starts 2.0 s
\* after the second one ends.

ScenarioWords ==
    <<[word |-> <<"a", "a">>, start |-> 0, end |-> 500],
      [word |-> <<"maru">>, start |-> 500, end |-> 600]>>

\* The pause before the last word, in milliseconds.
ScenarioPause == 2000

LastWords ==
    {[word |-> t, start |-> ScenarioWords[2].end + ScenarioPause,
      end |-> ScenarioWords[2].end + ScenarioPause + d] :
        t \in TextsUpTo({"a", "dot", "maru"}, 2), d \in Durations}

InitScenarioB ==
    /\ VideoIdle
    /\ pc = "scenario_b"
    /\ word_list \in {ScenarioWords} \cup {Append(ScenarioWords, w) : w \in LastWords}
    /\ translation \in SegTranslations
    /\ natural_segments = Idle
    /\ SplitIdle
    /\ AlignIdle
    /\ SrtIdle
    /\ TsIdle
    /\ ContentIdle

SegmentScenarioWords ==
    /\ pc = "scenario_b"
    /\ natural_segments' = find_natural_segments(word_list, translation)
    /\ pc' = "scenario_b_done"
    /\ UNCHANGED <<word_list, translation, splitVars, alignVars, srtVars, tsVars, contentVars,
                   videoVars>>

NextScenarioB == SegmentScenarioWords

SpecScenarioB == InitScenarioB /\ [][NextScenarioB]_vars

----------------------------------------------------------------------------
\* The boundary detector applied to words that may carry no start or no end.

MaxUntimedWords == 2

UntimedShapes == [gap : {0, 1500}, dur : {500, 6500}, word : WordTexts]
TimeFields == {"start", "end"}

\* The word w without the fields of `missing`.
without(w, missing) == [f \in DOMAIN w \ missing |-> w[f]]

UntimedTimelines ==
    {timeline(shapes, 0) : shapes \in UNION {[1..k -> UntimedShapes] : k \in 0..MaxUntimedWords}}

InitUntimed ==
    /\ VideoIdle
    /\ pc = "segment"
    /\ \E tl \in UntimedTimelines :
          \E missing \in [1..Len(tl) -> SUBSET TimeFields] :
              word_list = [k \in 1..Len(tl) |-> without(tl[k], missing[k])]
    /\ translation \in SegTranslations
    /\ natural_segments = Idle
    /\ SplitIdle
    /\ AlignIdle
    /\ SrtIdle
    /\ TsIdle
    /\ ContentIdle

SpecUntimed == InitUntimed /\ [][NextSeg]_vars

----------------------------------------------------------------------------
\* The aligner applied to every bounded input.

AlignChars == {"a", "sp", "dot", "maru"}

InitAlign ==
    /\ VideoIdle
    /\ pc = "align"
    /\ al_original \in TextsUpTo({"a", "sp"}, 1)
    /\ al_full \in TextsUpTo(AlignChars, MaxAlignLen)
    /\ al_index \in 0..MaxSegmentIndex
    /\ al_total \in 0..MaxSegmentIndex
    /\ al_result = Idle
    /\ SplitIdle
    /\ SegIdle
    /\ SrtIdle
    /\ TsIdle
    /\ ContentIdle

EstimateTranslatedSegment ==
    /\ pc = "align"
    /\ al_result' = estimate_translated_segment(al_original, al_full,
                                                al_index, al_total)
    /\ pc' = "align_done"
    /\ UNCHANGED <<al_original, al_full, al_index, al_total,
                   splitVars, segVars, srtVars, tsVars, contentVars, videoVars>>

NextAlign == EstimateTranslatedSegment

SpecAlign == InitAlign /\ [][NextAlign]_vars

----------------------------------------------------------------------------
\* The cue builder applied to every bounded transcription.

SrtWidths == {1, 3}
SrtHeights == {1, 2}
SrtTexts == {<<>>, <<"sp">>, <<"a", "dot", "sp", "a", "sp", "a">>}

\* The source language named, the language detected, the target language.
SrtLanguages ==
    {[source |-> "auto", detected |-> "japanese", target |-> "ja"],
     [source |-> "auto", detected |-> "english", target |-> "ja"],
     [source |-> "auto", detected |-> "english", target |-> "en"],
     [source |-> "en", detected |-> "en", target |-> "ja"]}

\* What the translation service may do with a request.
Replies ==
    {[ok |-> FALSE, text |-> <<>>],
     [ok |-> TRUE, text |-> <<>>],
     [ok |-> TRUE, text |-> <<"a", "maru", "a", "sp", "a", "sp">>]}

InitSrt ==
    /\ VideoIdle
    /\ pc = "build"
    /\ \E t \in SrtTexts, ws \in SrtTimelines(MaxSrtWords), l \in SrtLanguages :
          /\ transcription = [text |-> t, words |-> ws, language |-> l.detected]
          /\ source_language = l.source
          /\ target_language = l.target
    /\ max_chars_per_line \in SrtWidths
    /\ max_lines \in SrtHeights
    /\ srt_file = Idle
    /\ raised = FALSE
    /\ service_calls = <<>>
    /\ translated_so_far = Idle
    /\ text = Idle
    /\ final_chunks = Idle
    /\ SegIdle
    /\ AlignIdle
    /\ TsIdle
    /\ ContentIdle

CreateSrt ==
    /\ pc = "build"
    /\ \E reply \in Replies :
          \E r \in {create_srt_from_transcript_custom(
                       transcription, source_language, target_language,
                       max_chars_per_line, max_lines, reply)} :
              /\ srt_file' = r.subs
              /\ raised' = r.raised
              /\ service_calls' = service_calls \o r.calls
    /\ pc' = "build_done"
    /\ UNCHANGED <<transcription, source_language, target_language, translated_so_far,
                   splitVars, segVars, alignVars, tsVars, contentVars, videoVars>>

NextSrt == CreateSrt

SpecSrt == InitSrt /\ [][NextSrt]_vars

----------------------------------------------------------------------------
\* The cue builder applied to transcriptions that need no translation, whose
\* times are no round numbers and whose texts give up to MaxCueChunks chunks.

MaxCueWords == 2
MaxCueChunks == 16

CueShapes == [gap : {0, 63}, dur : {221, 1963}, word : {<<"a">>, <<"a", "dot">>}]
CueTimelines ==
    {timeline(shapes, 0) : shapes \in UNION {[1..k -> CueShapes] : k \in 0..MaxCueWords}}

\* n words "a" with a space between them.
RECURSIVE spaced(_)
spaced(n) == IF n <= 1 THEN [i \in 1..n |-> "a"] ELSE spaced(n - 1) \o <<"sp", "a">>

CueTexts == {spaced(n) : n \in {1, 3, 6, MaxCueChunks - 5, MaxCueChunks}}

InitCue ==
    /\ VideoIdle
    /\ pc = "build"
    /\ \E t \in CueTexts, ws \in CueTimelines :
          transcription = [text |-> t, words |-> ws, language |-> "ja"]
    /\ source_language = "ja"
    /\ target_language = "ja"
    /\ max_chars_per_line \in SrtWidths
    /\ max_lines \in SrtHeights
    /\ srt_file = Idle
    /\ raised = FALSE
    /\ service_calls = <<>>
    /\ translated_so_far = Idle
    /\ text = Idle
    /\ final_chunks = Idle
    /\ SegIdle
    /\ AlignIdle
    /\ TsIdle
    /\ ContentIdle

SpecCue == InitCue /\ [][NextSrt]_vars

----------------------------------------------------------------------------
\* The timestamp formatter applied to sampled times up to 101 hours, to
\* their negatives and to values that are no numbers.

TsHours == {0, 1, 24, 99, 100}
TsMinutes == {0, 1, 59}
TsSeconds == {0, 1, 5, 59}
TsMillis == {0, 1, 25, 250, 999}
TsSigns == {1, -1}

InitTs ==
    /\ VideoIdle
    /\ pc = "format"
    /\ \/ \E h \in TsHours, m \in TsMinutes, sec \in TsSeconds, ms \in TsMillis,
             sub \in 0..(TicksPerMs - 1), sign \in TsSigns :
             ts_seconds =
                 number(sign * (((h * SecondsPerHour + m * SecondsPerMinute + sec)
                                     * MsPerSecond + ms) * TicksPerMs + sub))
       \/ ts_seconds \in NonNumeric
    /\ ts_string = Idle
    /\ SplitIdle
    /\ SegIdle
    /\ AlignIdle
    /\ SrtIdle
    /\ ContentIdle

FormatTimestamp ==
    /\ pc = "format"
    /\ ts_string' = format_timestamp(ts_seconds)
    /\ pc' = "format_done"
    /\ UNCHANGED <<ts_seconds, splitVars, segVars, alignVars, srtVars, contentVars, videoVars>>

NextTs == FormatTimestamp

SpecTs == InitTs /\ [][NextTs]_vars

----------------------------------------------------------------------------
\* create_srt_content applied to every bounded segment list.

ContentTexts == {<<>>, <<"sp">>, <<"a">>, <<"sp", "a">>}
ContentShapes == [gap : {0}, dur : {MsPerSecond * TicksPerMs, 2 * MsPerSecond * TicksPerMs},
                  word : ContentTexts]

\* Segments one after the other, as the recogniser gives them.
ContentSegments(n) ==
    {[k \in 1..Len(tl) |-> [start |-> tl[k].start, end |-> tl[k].end, text |-> tl[k].word]] :
        tl \in {timeline(shapes, 0) :
                   shapes \in UNION {[1..k -> ContentShapes] : k \in 0..n}}}

InitContent ==
    /\ VideoIdle
    /\ pc = "content"
    /\ content_segments \in ContentSegments(MaxContentSegments)
    /\ content_cues = Idle
    /\ SplitIdle
    /\ SegIdle
    /\ AlignIdle
    /\ SrtIdle
    /\ TsIdle

CreateSrtContent ==
    /\ pc = "content"
    /\ content_cues' = create_srt_content(content_segments)
    /\ pc' = "content_done"
    /\ UNCHANGED <<content_segments, splitVars, segVars, alignVars, srtVars, tsVars, videoVars>>

NextContent == CreateSrtContent

SpecContent == InitContent /\ [][NextContent]_vars

----------------------------------------------------------------------------
\* create_srt_file applied to every bounded transcription result, with and
\* without the keys 'segments' and 'text'.

HelloWorld == <<"a", "a", "a", "a", "a", "sp", "a", "a", "a", "a", "a", "dot">>
FileTexts == {<<>>, <<"sp">>, HelloWorld}

TranscriptionResults ==
    [text : FileTexts, segments : ContentSegments(MaxContentSegments)]
        \cup [text : FileTexts]
        \cup [segments : ContentSegments(MaxContentSegments)]
        \cup {<<>>}

InitSrtFile ==
    /\ VideoIdle
    /\ pc = "write_srt"
    /\ transcription \in TranscriptionResults
    /\ content_cues = Idle
    /\ content_segments = Idle
    /\ raised = FALSE
    /\ source_language = "auto"
    /\ target_language = "ja"
    /\ srt_file = Idle
    /\ service_calls = <<>>
    /\ translated_so_far = Idle
    /\ SplitIdle
    /\ SegIdle
    /\ AlignIdle
    /\ TsIdle

CreateSrtFile ==
    /\ pc = "write_srt"
    /\ LET r == create_srt_file(transcription) IN
       /\ content_cues' = r.srt_content
       /\ raised' = r.raised
       /\ pc' = IF r.raised THEN "write_failed" ELSE "srt_written"
    /\ UNCHANGED <<transcription, source_language, target_language, srt_file, service_calls,
                   translated_so_far, content_segments, splitVars, segVars, alignVars, tsVars,
                   videoVars>>

NextSrtFile == CreateSrtFile

SpecSrtFile == InitSrtFile /\ [][NextSrtFile]_vars

----------------------------------------------------------------------------
\* translate_text and translate_segments (src/utils/translation.py)

\* "翻訳なし"
NoTranslation == "none"

\* ' '.join(words)
RECURSIVE join_sp(_)
join_sp(tokens) ==
    IF tokens = <<>> THEN <<>>
    ELSE IF Len(tokens) = 1 THEN tokens[1]
    ELSE tokens[1] \o <<"sp">> \o join_sp(Tail(tokens))

\* clean_transcription_text, for a text without a run of equal marks: every
\* run of white space becomes one space, and the ends are stripped.
clean_transcription_text(t) == join_sp(split(t))

\* Whether translate_text reaches the translation service.
translation_called(t, translation_option) ==
    strip(t) # <<>> /\ translation_option # NoTranslation

\* translate_text: reply is what the service does; when it fails,
\* translate_chunk hands back the cleaned text it was given.
translate_text(t, translation_option, reply) ==
    IF ~translation_called(t, translation_option) THEN t
    ELSE IF reply.ok THEN strip(reply.text)
    ELSE clean_transcription_text(t)

\* translate_segments: every segment with its text translated and its
\* original text kept.
translate_segments(segments, translation_option, reply) ==
    IF translation_option = NoTranslation \/ segments = <<>> THEN segments
    ELSE [k \in 1..Len(segments) |->
             [start |-> segments[k].start,
              end |-> segments[k].end,
              text |-> translate_text(segments[k].text, translation_option, reply),
              original_text |-> segments[k].text]]

----------------------------------------------------------------------------
\* process_video_subtitle (src/app.py:594-675), a stage at a time.  A stage
\* that raises is caught by the except clause, which shows an error; the finally
\* clause clears the processing flag.

VideoTexts == {<<>>, HelloWorld}
VideoOptions == {NoTranslation, "ja_en"}

\* What transcribe_audio_file may return when it transcribes, and what it
\* returns when it fails.
VideoResults == [text : VideoTexts, segments : ContentSegments(1), language : {"ja"}]
FailedTranscription == [text |-> <<>>, segments |-> <<>>, language |-> "ja"]

InitVideo ==
    /\ pc = "start"
    /\ translate_option \in VideoOptions
    /\ srt_content_to_use = Idle
    /\ stage_log = <<>>
    /\ failed_stages = {}
    /\ session_results = {}
    /\ messages = <<>>
    /\ temp_files = {}
    /\ processing = FALSE
    /\ SplitIdle
    /\ SegIdle
    /\ AlignIdle
    /\ SrtIdle
    /\ TsIdle
    /\ ContentIdle

videoFrame == <<source_language, target_language, srt_file, raised, translated_so_far,
                content_segments, translate_option, splitVars, segVars, alignVars, tsVars>>

\* The except and finally clauses, after the stage raised.
Aborted(stage) ==
    /\ failed_stages' = failed_stages \cup {stage}
    /\ messages' = Append(messages, "error")
    /\ processing' = FALSE
    /\ pc' = "returned"

\* The upload is copied to a temporary file.
StartVideo ==
    /\ pc = "start"
    /\ processing' = TRUE
    /\ temp_files' = temp_files \cup {"video_path"}
    /\ pc' = "extract_audio"
    /\ UNCHANGED <<transcription, service_calls, content_cues, srt_content_to_use, stage_log,
                   failed_stages, session_results, messages, videoFrame>>

\* extract_audio: it returns the audio file, or raises, before or after it
\* created the file.
ExtractAudioStage ==
    /\ pc = "extract_audio"
    /\ stage_log' = Append(stage_log, "extract_audio")
    /\ \/ /\ temp_files' = temp_files \cup {"audio_path"}
          /\ pc' = "transcribe"
          /\ UNCHANGED <<failed_stages, messages, processing>>
       \/ /\ Aborted("extract_audio")
          /\ temp_files' \in {temp_files, temp_files \cup {"audio_path"}}
    /\ UNCHANGED <<transcription, service_calls, content_cues, srt_content_to_use,
                   session_results, videoFrame>>

\* transcribe_audio_file: it returns a result, a result that lacks the chunks
\* that failed, or the empty result when it failed as a whole; it never raises.
TranscribeStage ==
    /\ pc = "transcribe"
    /\ stage_log' = Append(stage_log, "transcribe")
    /\ \/ /\ transcription' \in VideoResults
          /\ UNCHANGED failed_stages
       \/ /\ transcription' \in VideoResults \cup {FailedTranscription}
          /\ failed_stages' = failed_stages \cup {"transcribe"}
    /\ srt_content_to_use' = transcription'
    /\ pc' = IF translate_option # NoTranslation THEN "translate" ELSE "create_srt"
    /\ UNCHANGED <<service_calls, content_cues, session_results, messages, temp_files,
                   processing, videoFrame>>

\* translate_text and, for a result with segments, translate_segments: a
\* failure of the service leaves the text untranslated and raises nothing.
TranslateStage ==
    /\ pc = "translate"
    /\ stage_log' = Append(stage_log, "translate")
    /\ \E reply \in Replies :
          LET translated_text == translate_text(transcription.text, translate_option, reply)
              called ==
                  \/ translation_called(transcription.text, translate_option)
                  \/ \E k \in 1..Len(transcription.segments) :
                         translation_called(transcription.segments[k].text, translate_option)
          IN  /\ srt_content_to_use' =
                     IF transcription.segments # <<>>
                     THEN [text |-> translated_text,
                           segments |-> translate_segments(transcription.segments,
                                                           translate_option, reply),
                           language |-> transcription.language,
                           original_text |-> transcription.text,
                           translation_option |-> translate_option]
                     ELSE [text |-> transcription.text,
                           segments |-> transcription.segments,
                           language |-> transcription.language,
                           translated |-> translated_text]
              /\ service_calls' =
                     IF translation_called(transcription.text, translate_option)
                     THEN Append(service_calls, transcription.text) ELSE service_calls
              /\ failed_stages' =
                     IF called /\ ~reply.ok THEN failed_stages \cup {"translate"}
                     ELSE failed_stages
    /\ pc' = "create_srt"
    /\ UNCHANGED <<transcription, content_cues, session_results, messages, temp_files,
                   processing, videoFrame>>

\* create_srt_file: it writes the file, or raises when there is nothing to write.
CreateSrtStage ==
    /\ pc = "create_srt"
    /\ stage_log' = Append(stage_log, "create_srt")
    /\ LET r == create_srt_file(srt_content_to_use) IN
       \/ /\ ~r.raised
          /\ content_cues' = r.srt_content
          /\ temp_files' = temp_files \cup {"srt_path"}
          /\ pc' = "burn"
          /\ UNCHANGED <<failed_stages, messages, processing>>
       \/ /\ r.raised
          /\ Aborted("create_srt")
          /\ UNCHANGED <<content_cues, temp_files>>
    /\ UNCHANGED <<transcription, service_calls, srt_content_to_use, session_results,
                   videoFrame>>

\* burn_subtitles, and what follows it: the result is stored, the temporary
\* video and audio are deleted and the success message is shown.
BurnStage ==
    /\ pc = "burn"
    /\ stage_log' = Append(stage_log, "burn")
    /\ \/ /\ session_results' = session_results \cup {"video_result"}
          /\ temp_files' = (temp_files \cup {"output_video_path"}) \ {"video_path", "audio_path"}
          /\ messages' = Append(messages, "success")
          /\ processing' = FALSE
          /\ pc' = "returned"
          /\ UNCHANGED failed_stages
       \/ /\ Aborted("burn")
          /\ UNCHANGED <<session_results, temp_files>>
    /\ UNCHANGED <<transcription, service_calls, content_cues, srt_content_to_use, videoFrame>>

NextVideo ==
    \/ StartVideo
    \/ ExtractAudioStage
    \/ TranscribeStage
    \/ TranslateStage
    \/ CreateSrtStage
    \/ BurnStage

SpecVideo == InitVideo /\ [][NextVideo]_vars

----------------------------------------------------------------------------
\* The video tab's request, from the click on the button to the result
\* (src/app_backup.py:908-985).  A step that fails stops the script.

FlowSources == {"auto", "en", "ja"}
FlowTargets == {"ja", "en"}
FlowDetected == {"ja", "japanese", "en", "english"}
FlowTexts == {<<>>, <<"a", "dot", "sp", "a">>}

\* What the recogniser may return.
FlowTranscripts ==
    [text : FlowTexts, words : SrtTimelines(1), language : FlowDetected]

InitFlow ==
    /\ VideoIdle
    /\ pc = "extract_audio"
    /\ source_language \in FlowSources
    /\ target_language \in FlowTargets
    /\ max_chars_per_line \in SrtWidths
    /\ max_lines \in SrtHeights
    /\ transcription = Idle
    /\ srt_file = Idle
    /\ raised = FALSE
    /\ service_calls = <<>>
    /\ translated_so_far = Idle
    /\ text = Idle
    /\ final_chunks = Idle
    /\ SegIdle
    /\ AlignIdle
    /\ TsIdle
    /\ ContentIdle

flowFrame == <<source_language, target_language, splitVars, segVars, alignVars, tsVars,
               contentVars, videoVars>>

\* Step 1: extract_audio_from_video; st.stop() when it fails.
ExtractAudio ==
    /\ pc = "extract_audio"
    /\ \/ pc' = "transcribe"
       \/ pc' = "stopped"
    /\ UNCHANGED <<transcription, srt_file, raised, service_calls, translated_so_far,
                   flowFrame>>

\* Step 2: transcribe_with_whisper; st.stop() when it returns None.
Transcribe ==
    /\ pc = "transcribe"
    /\ \/ /\ transcription' \in FlowTranscripts
          /\ pc' = "translate"
       \/ /\ transcription' = transcription
          /\ pc' = "stopped"
    /\ UNCHANGED <<srt_file, raised, service_calls, translated_so_far, flowFrame>>

\* Step 3: the flow's own decision on translation, and its call.
Translate ==
    /\ pc = "translate"
    /\ LET original == transcription.text
           actual == actual_source_lang(transcription, source_language)
       IN  \/ /\ need_translation(actual, target_language)
              /\ \E reply \in Replies :
                    translated_so_far' =
                        translate_with_claude(original, actual, target_language, reply)
              /\ service_calls' =
                     IF calls_service(actual, target_language)
                     THEN Append(service_calls, original) ELSE service_calls
           \/ /\ ~need_translation(actual, target_language)
              /\ translated_so_far' = original
              /\ service_calls' = service_calls
    /\ pc' = "create_srt"
    /\ UNCHANGED <<transcription, srt_file, raised, flowFrame>>

\* Step 4: create_srt_from_transcript_custom; an exception ends the script.
BuildSrt ==
    /\ pc = "create_srt"
    /\ \E reply \in Replies :
          \E r \in {create_srt_from_transcript_custom(
                       transcription, source_language, target_language,
                       max_chars_per_line, max_lines, reply)} :
              /\ srt_file' = r.subs
              /\ raised' = r.raised
              /\ service_calls' = service_calls \o r.calls
              /\ pc' = IF r.raised THEN "crashed" ELSE "embed"
    /\ UNCHANGED <<transcription, translated_so_far, flowFrame>>

\* Step 5: embed_subtitles_to_video_custom; the result is shown when it succeeds.
EmbedSubtitles ==
    /\ pc = "embed"
    /\ \/ pc' = "done"
       \/ pc' = "embed_failed"
    /\ UNCHANGED <<transcription, srt_file, raised, service_calls, translated_so_far,
                   flowFrame>>

NextFlow ==
    \/ ExtractAudio
    \/ Transcribe
    \/ Translate
    \/ BuildSrt
    \/ EmbedSubtitles

SpecFlow == InitFlow /\ [][NextFlow]_vars

----------------------------------------------------------------------------
\* Claims about find_natural_segments, under SpecSeg.

\* C1: for a non-decreasing word timeline, every returned segment has
\* start <= end and every segment ends no later than the next one starts.
C1_BoundaryMonotone ==
    (pc = "segment_done" /\ NonDecreasing(word_list)) =>
        /\ \A k \in 1..Len(natural_segments) :
               natural_segments[k].start <= natural_segments[k].end
        /\ \A k \in 1..Len(natural_segments) - 1 :
               natural_segments[k].end <= natural_segments[k + 1].start

\* Three segments came out of a timeline with a pause in it, the first of
\* them with a positive length.
C1_Witness ==
    /\ pc = "segment_done"
    /\ NonDecreasing(word_list)
    /\ Len(natural_segments) = 3
    /\ natural_segments[1].start < natural_segments[1].end
    /\ word_list[2].start > word_list[1].end

\* The number of words of the first k segments: each word adds one token and
\* a space to the segment's original text.
RECURSIVE words_closed(_, _)
words_closed(segments, k) ==
    IF k = 0 THEN 0
    ELSE words_closed(segments, k - 1) + Len(split(segments[k].original_text))

\* The segment that holds the word at position i (1-based).
segment_of_word(segments, i) ==
    CHOOSE k \in 1..Len(segments) :
        words_closed(segments, k - 1) < i /\ i <= words_closed(segments, k)

C20_NextSegmentStart ==
    pc = "segment_done" =>
        \A k \in 1..Len(natural_segments) - 1 :
            natural_segments[k + 1].start =
                word_list[words_closed(natural_segments, k) + 1].start

\* C21: for a non-decreasing word timeline, no segment lasts more than 6.0 s.
C21_MaxDuration ==
    (pc = "segment_done" /\ NonDecreasing(word_list)) =>
        \A k \in 1..Len(natural_segments) :
            natural_segments[k].end - natural_segments[k].start <= 6000

\* C22: for a non-decreasing word timeline, every segment but the last one
\* lasts at least 1.5 s.
C22_MinDuration ==
    (pc = "segment_done" /\ NonDecreasing(word_list)) =>
        \A k \in 1..Len(natural_segments) - 1 :
            natural_segments[k].end - natural_segments[k].start >= 1500

\* A sentence end closed a first segment of exactly 1.5 s, after a word that
\* ended a sentence too early to close one.
C22_Witness ==
    /\ pc = "segment_done"
    /\ NonDecreasing(word_list)
    /\ Len(word_list) = 3
    /\ Len(natural_segments) = 2
    /\ is_sentence_end(word_list[1].word)
    /\ words_closed(natural_segments, 1) = 2
    /\ natural_segments[1].end - natural_segments[1].start = MinSentenceMs

\* The texts of the words from position `from` to position `to`.
word_texts(ws, from, to) == [j \in 1..(to - from + 1) |-> ws[from + j - 1].word]

\* C28: the segments partition the words: there are between 1 and
\* Len(word_list) of them (none for no words), each holds the words that follow
\* those of the segment before it, in order, all words are held, the first
\* segment starts where the first word starts, the last one ends where the
\* last word ends, and their original texts joined give the word texts.
C28_SegmentsPartitionWords ==
    pc = "segment_done" =>
        LET n == Len(natural_segments)
            cut(k) == words_closed(natural_segments, k)
        IN  /\ word_list = <<>> => n = 0
            /\ word_list # <<>> => 1 <= n /\ n <= Len(word_list)
            /\ cut(n) = Len(word_list)
            /\ \A k \in 1..n :
                   /\ cut(k - 1) < cut(k)
                   /\ natural_segments[k].original_text
                          = join_sp(word_texts(word_list, cut(k - 1) + 1, cut(k)))
                   /\ natural_segments[k].end = word_list[cut(k)].end
            /\ n >= 1 =>
                   /\ natural_segments[1].start = word_list[1].start
                   /\ natural_segments[n].end = word_list[Len(word_list)].end
            /\ join_sp([k \in 1..n |-> natural_segments[k].original_text])
                   = join_sp(word_texts(word_list, 1, Len(word_list)))

C28_Witness ==
    /\ pc = "segment_done"
    /\ Len(word_list) = 3
    /\ Len(natural_segments) = 2
    /\ words_closed(natural_segments, 1) = 1
    /\ natural_segments[2].original_text
           = join_sp(<<word_list[2].word, word_list[3].word>>)
    /\ natural_segments[2].end = word_list[3].end

----------------------------------------------------------------------------
\* Claims about find_natural_segments on words without times, under
\* SpecUntimed.

\* The times the words carry, in the order of the words.
RECURSIVE times_carried(_)
times_carried(ws) ==
    IF ws = <<>> THEN <<>>
    ELSE LET w == Head(ws) IN
         (IF "start" \in DOMAIN w THEN <<w.start>> ELSE <<>>)
             \o (IF "end" \in DOMAIN w THEN <<w.end>> ELSE <<>>)
             \o times_carried(Tail(ws))

\* C27: when words lack a start or an end, also among words that carry real
\* times (which do not decrease), find_natural_segments returns, and its
\* segments keep the order: start <= end, and each segment ends no later than
\* the next one starts.
C27_UntimedWordsOrdered ==
    LET carried == times_carried(word_list) IN
    (/\ pc = "segment_done"
     /\ \E k \in 1..Len(word_list) : DOMAIN word_list[k] # {"word", "start", "end"}
     /\ \A k \in 1..Len(carried) - 1 : carried[k] <= carried[k + 1]) =>
        /\ \A k \in 1..Len(natural_segments) :
               natural_segments[k].start <= natural_segments[k].end
        /\ \A k \in 1..Len(natural_segments) - 1 :
               natural_segments[k].end <= natural_segments[k + 1].start

----------------------------------------------------------------------------
\* Claims about find_natural_segments on the two-word scenario, under
\* SpecScenarioB.

\* C16: for the words '速い' (0.0 to 0.5) and '。' (0.5 to 0.6), alone or
\* followed by one last word 2.0 s later, exactly one segment is returned and
\* it starts at 0.0.
C16_ScenarioB ==
    pc = "scenario_b_done" =>
        /\ Len(natural_segments) = 1
        /\ natural_segments[1].start = 0

\* The scenario with its third word: the sentence end and the pause after the
\* second word both fell short of their least durations.
C16_Witness ==
    /\ pc = "scenario_b_done"
    /\ Len(word_list) = 3
    /\ word_list[3].start - word_list[2].end = ScenarioPause
    /\ natural_segments[1].end = word_list[3].end

----------------------------------------------------------------------------
\* Claims about split_text_for_subtitles, under SpecSplit.

\* C2: every physical line of every returned caption has at most
\* max_chars_per_line characters, unless it is one token with no white space.
C2_WidthBound ==
    pc = "split_done" =>
        \A k \in 1..Len(final_chunks) :
            LET lines == PhysicalLines(final_chunks[k]) IN
            \A j \in 1..Len(lines) :
                \/ Len(lines[j]) <= max_chars_per_line
                \/ \A c \in 1..Len(lines[j]) : ~IsSpace(lines[j][c])

\* A chunk without line breaks was wrapped: a caption of two lines came out,
\* its first line two words that fill the width exactly.
C2_Witness ==
    /\ pc = "split_done"
    /\ \A c \in 1..Len(text) : text[c] # "nl"
    /\ \E k \in 1..Len(final_chunks) :
           LET lines == PhysicalLines(final_chunks[k]) IN
           /\ Len(lines) = 2
           /\ lines[1] = <<"a", "sp", "a">>
           /\ Len(lines[1]) = max_chars_per_line
    /\ max_lines = 2

\* C3: every returned caption has at most max_lines physical lines.
C3_LineCountBound ==
    pc = "split_done" =>
        \A k \in 1..Len(final_chunks) :
            Len(PhysicalLines(final_chunks[k])) <= max_lines

\* C13 as stated: the returned list is empty exactly when the text is the
\* empty string.
C13_EmptyOnlyForEmptyText ==
    pc = "split_done" => (final_chunks = <<>> <=> text = <<>>)

\* C13, amended: the returned list is empty exactly when the text is empty or
\* all white space.
C13_EmptyIffBlank ==
    pc = "split_done" => (final_chunks = <<>> <=> strip(text) = <<>>)

\* A text that starts with white space and holds two sentences gave two
\* captions.
C13_Witness ==
    /\ pc = "split_done"
    /\ text # <<>>
    /\ IsSpace(text[1])
    /\ strip(text) # <<>>
    /\ Len(final_chunks) = 2

\* The characters of a caption that are not line breaks.
caption_chars(caption) == Cardinality({c \in 1..Len(caption) : caption[c] # "nl"})

\* C17: with max_chars_per_line = 20 and max_lines = 2, every caption of a
\* text of 100 characters without a mark has at most 40 characters, line
\* breaks not counted, and at most 2 lines.  Checked under SpecScenarioC.
C17_ScenarioC ==
    pc = "scenario_done" =>
        \A k \in 1..Len(final_chunks) :
            /\ caption_chars(final_chunks[k]) <= max_chars_per_line * max_lines
            /\ Len(PhysicalLines(final_chunks[k])) <= max_lines

\* The characters of a text that are not white space, in order.
non_space(s) == SelectSeq(s, LAMBDA c : ~IsSpace(c))

\* The captions one after the other.
RECURSIVE concat(_)
concat(captions) == IF captions = <<>> THEN <<>> ELSE Head(captions) \o concat(Tail(captions))

\* C29: the characters of the captions that are not white space, taken in
\* order, are those of the text, and no caption is empty.
C29_TextPreserved ==
    pc = "split_done" =>
        /\ non_space(concat(final_chunks)) = non_space(text)
        /\ \A k \in 1..Len(final_chunks) : final_chunks[k] # <<>>

\* A text of two sentences with white space between its words was wrapped
\* into captions of more than one line.
C29_Witness ==
    /\ pc = "split_done"
    /\ Len(final_chunks) >= 2
    /\ \E c \in 1..Len(text) : text[c] = "dot" /\ c < Len(text)
    /\ \E c \in 1..Len(text) : IsSpace(text[c])
    /\ \E k \in 1..Len(final_chunks) : Len(PhysicalLines(final_chunks[k])) >= 2
    /\ Len(concat(final_chunks)) < Len(text)

----------------------------------------------------------------------------
\* Claims about estimate_translated_segment, under SpecAlign.

\* C6: for a non-empty full_translated_text the returned text is not empty.
C6_AlignerTotal ==
    (pc = "align_done" /\ al_full # <<>>) => al_result # <<>>

\* The distance between two positions.
distance(a, b) == IF a >= b THEN a - b ELSE b - a

\* C26: in the proportional fallback, with pos the floor of
\* len * segment_index / max(total_segments, 1), the result is the text from
\* max(0, pos - 50) up to and including the sentence mark nearest to pos among
\* those within 50 characters of pos on either side, or the whole window up to
\* min(len, pos + 50) when it holds no mark; white space at the ends of the
\* result is not counted.
C26_ProportionalFallback ==
    LET sentences == strip_nonempty(re_split(al_full, 1, <<>>, <<>>))
        pos == (Len(al_full) * al_index) \div Max(al_total, 1)
        window_start == Max(0, pos - Window)
        window_end == Min(Len(al_full), pos + Window)
        marks == {j \in window_start..window_end - 1 : al_full[j + 1] \in AlignPunct}
    IN  (pc = "align_done" /\ sentences # <<>> /\ al_index >= Len(sentences)) =>
            IF marks = {}
            THEN al_result = strip(PySlice(al_full, window_start, window_end))
            ELSE \E j \in marks :
                     /\ \A m \in marks : distance(j, pos) <= distance(m, pos)
                     /\ al_result = strip(PySlice(al_full, window_start, j + 1))

----------------------------------------------------------------------------
\* Claims about create_srt_from_transcript_custom, under SpecSrt.

\* C4: when the builder returns, its cues carry the indices 1, 2, ..., N in
\* the order they were emitted.
C4_CueIndicesContiguous ==
    (pc = "build_done" /\ ~raised) =>
        \A k \in 1..Len(srt_file) : srt_file[k].index = k

\* The builder returned more cues than there are words: a segment was split
\* into several cues, after a segment that gave one cue.
C4_Witness ==
    /\ pc = "build_done"
    /\ ~raised
    /\ transcription.words # <<>>
    /\ Len(srt_file) > Len(transcription.words)
    /\ Len(srt_file) >= 3
    /\ srt_file[1].end = transcription.words[1].end

\* C7: every cue the builder returns starts before it ends, in milliseconds.
C7_CueStartBeforeEnd ==
    (pc = "build_done" /\ ~raised /\ NonDecreasing(transcription.words)) =>
        \A k \in 1..Len(srt_file) : srt_file[k].start < srt_file[k].end

\* C8: the builder never raises, and no cue it emits has an empty or blank text.
C8_EmptyTextNoError ==
    pc = "build_done" =>
        /\ ~raised
        /\ \A k \in 1..Len(srt_file) : strip(srt_file[k].text) # <<>>

\* The English name of a language code.
language_name(code) == IF code = "ja" THEN "japanese" ELSE IF code = "en" THEN "english" ELSE code

\* Whether a detected language is the target language, as a code or by name.
denotes(detected, target) == detected = target \/ detected = language_name(target)

\* C14: with the source language "auto", a detected language that denotes the
\* target language, as its code or as its English name, makes the builder call
\* no translation and take the cue text from the original transcript.
C14_LanguageNames ==
    (/\ pc = "build_done"
     /\ source_language = "auto"
     /\ denotes(transcription.language, target_language)) =>
        /\ service_calls = <<>>
        /\ \A reply \in Replies :
               srt_file = create_srt_from_transcript_custom(
                              transcription, target_language, target_language,
                              max_chars_per_line, max_lines, reply).subs

----------------------------------------------------------------------------
\* Claims about create_srt_content, under SpecContent.

\* C5: the cue blocks written carry the numbers 1, 2, ..., N, N the number of
\* blocks written.
C5_ContentIndicesContiguous ==
    pc = "content_done" =>
        \A k \in 1..Len(content_cues) : content_cues[k].index = k

----------------------------------------------------------------------------
\* Claims about the request flow, under SpecFlow.

\* C9: in one request the translation service is called at most once, and
\* with the whole transcript text.
C9_TranslateAtMostOnce ==
    /\ Len(service_calls) <= 1
    /\ \A k \in 1..Len(service_calls) : service_calls[k] = transcription.text

----------------------------------------------------------------------------
\* Claims about the times of the cues, under SpecCue.

\* C23: for a transcription whose word timeline is non-decreasing, every cue
\* of create_srt_from_transcript_custom ends, in milliseconds, no later than
\* the next cue starts, also where a segment was split into several chunks.
C23_CuesOrdered ==
    (pc = "build_done" /\ ~raised /\ NonDecreasing(transcription.words)) =>
        \A k \in 1..Len(srt_file) - 1 : srt_file[k].end <= srt_file[k + 1].start

\* C24: a transcription without words whose text gives N >= 1 chunks gets N
\* cues, cue i (from 0) spanning the milliseconds of [i * slice, (i + 1) * slice)
\* with slice = 30 / N seconds, so that the last cue ends at 30 seconds.
C24_NoWordsWindow ==
    (pc = "build_done" /\ ~raised /\ transcription.words = <<>>) =>
        LET N == Len(srt_file)
            window == TotalDurationSeconds * MsPerSecond
        IN  \A i \in 0..N - 1 :
                /\ srt_file[i + 1].start = (i * window) \div N
                /\ srt_file[i + 1].end = ((i + 1) * window) \div N

\* The number of cues the segments before segment k gave.
RECURSIVE cues_before(_, _, _, _)
cues_before(natural, k, width, height) ==
    IF k <= 1 THEN 0
    ELSE cues_before(natural, k - 1, width, height)
             + Len(split_text_for_subtitles(natural[k - 1].translated_text, width, height))

\* C25: with words, a segment whose text gives n chunks has n cues, cue j
\* (from 0) spanning the milliseconds of [start + j * d, start + (j + 1) * d]
\* with d = (end - start) / n: one chunk spans the segment, the first of
\* several chunks starts at the segment's start and the last ends at its end.
C25_SegmentSpans ==
    (pc = "build_done" /\ ~raised /\ transcription.words # <<>>) =>
        LET natural == find_natural_segments(transcription.words, transcription.text) IN
        \A k \in 1..Len(natural) :
            LET segment == natural[k]
                n == Len(split_text_for_subtitles(segment.translated_text,
                                                  max_chars_per_line, max_lines))
                first == cues_before(natural, k, max_chars_per_line, max_lines)
                span == segment.end - segment.start
            IN  \A j \in 0..n - 1 :
                    /\ srt_file[first + j + 1].start
                           = (segment.start * n + j * span) \div n
                    /\ srt_file[first + j + 1].end
                           = (segment.start * n + (j + 1) * span) \div n

----------------------------------------------------------------------------
\* Claims about format_timestamp, under SpecTs.

\* The fields of HH:MM:SS,mmm: the runs of digits between the separators.
RECURSIVE timestamp_fields(_, _, _, _)
timestamp_fields(s, i, fields, cur) ==
    IF i > Len(s) THEN Append(fields, cur)
    ELSE IF s[i] \in {":", ","}
         THEN timestamp_fields(s, i + 1, Append(fields, cur), <<>>)
         ELSE timestamp_fields(s, i + 1, fields, Append(cur, s[i]))

DigitValue(c) == CHOOSE d \in 0..9 : DigitChars[d + 1] = c

RECURSIVE ParseInt(_)
ParseInt(digits) ==
    IF digits = <<>> THEN 0
    ELSE ParseInt(SubSeq(digits, 1, Len(digits) - 1)) * 10 + DigitValue(digits[Len(digits)])

\* HH*3600 + MM*60 + SS + mmm/1000 of a timestamp, in ticks.
ParsedTicks(s) ==
    LET f == timestamp_fields(s, 1, <<>>, <<>>) IN
    ((ParseInt(f[1]) * 3600 + ParseInt(f[2]) * 60 + ParseInt(f[3])) * 1000 + ParseInt(f[4]))
        * TicksPerMs

\* C10: for 0 <= s < 359999.999 the time read back from format_timestamp(s)
\* is within 0.001 s of s.
C10_RoundTrip ==
    (/\ pc = "format_done"
     /\ ts_seconds \notin NonNumeric
     /\ 0 <= ts_seconds.ticks
     /\ ts_seconds.ticks < 359999999 * TicksPerMs) =>
        LET back == ParsedTicks(ts_string) IN
        /\ Len(timestamp_fields(ts_string, 1, <<>>, <<>>)) = 4
        /\ back - ts_seconds.ticks <= TicksPerMs
        /\ ts_seconds.ticks - back <= TicksPerMs

\* 99:59:59,001 and a fraction of a millisecond were formatted.
C10_Witness ==
    /\ pc = "format_done"
    /\ ts_seconds \notin NonNumeric
    /\ ts_seconds.ticks < 359999999 * TicksPerMs
    /\ ts_seconds.ticks % TicksPerMs # 0
    /\ ts_string = <<"9", "9", ":", "5", "9", ":", "5", "9", ",", "0", "0", "1">>

\* The string the fields of a whole number t of milliseconds give:
\* HH = t div 3600000, MM = (t div 60000) mod 60, SS = (t div 1000) mod 60,
\* mmm = t mod 1000.
fields_of_ms(t) ==
    timestamp_string(t \div 3600000, (t \div 60000) % 60, (t \div 1000) % 60, t % 1000)

\* C11: for every s >= 0 the returned string is HH:MM:SS,mmm with the fields
\* of t = floor(s * 1000) milliseconds, the hours neither wrapped nor cut.
C11_FieldsOfFloor ==
    (pc = "format_done" /\ ts_seconds \notin NonNumeric /\ ts_seconds.ticks >= 0) =>
        ts_string = fields_of_ms(ts_seconds.ticks \div TicksPerMs)

ZeroTimestamp == <<"0", "0", ":", "0", "0", ":", "0", "0", ",", "0", "0", "0">>

\* C12: every negative number and every value that is no number gives
\* exactly 00:00:00,000.
C12_NegativeAndNonNumeric ==
    (pc = "format_done" /\ (ts_seconds \in NonNumeric \/ ts_seconds.ticks < 0)) =>
        ts_string = ZeroTimestamp

\* -5 seconds were formatted.
C12_Witness ==
    /\ pc = "format_done"
    /\ ts_seconds = number(0 - 5 * TicksPerSecond)
    /\ ts_string = ZeroTimestamp

----------------------------------------------------------------------------
\* Claims about create_srt_file, under SpecSrtFile.

\* C15: for a result without segments whose text is 'Hello world.', at least
\* one cue is written, the cues span from 0 s to 10 s, and the cue text is
\* 'Hello world.'.
C15_FallbackWindow ==
    (/\ pc \in {"srt_written", "write_failed"}
     /\ "text" \in DOMAIN transcription
     /\ transcription.text = HelloWorld
     /\ ("segments" \in DOMAIN transcription => transcription.segments = <<>>)) =>
        /\ ~raised
        /\ Len(content_cues) >= 1
        /\ ParsedTicks(content_cues[1].start) = 0
        /\ ParsedTicks(content_cues[Len(content_cues)].end) = 10 * TicksPerSecond
        /\ \A k \in 1..Len(content_cues) : content_cues[k].text = HelloWorld

----------------------------------------------------------------------------
\* Claims about process_video_subtitle, under SpecVideo.

\* C18: once a stage has failed, no later stage runs, no video_result is
\* stored, no success message is shown, and no stage is called twice.
C18_FailureAborts ==
    failed_stages # {} =>
        /\ \A k \in 1..Len(stage_log) : stage_log[k] \in failed_stages => k = Len(stage_log)
        /\ "video_result" \notin session_results
        /\ \A k \in 1..Len(messages) : messages[k] # "success"
        /\ \A j, k \in 1..Len(stage_log) : stage_log[j] = stage_log[k] => j = k

\* C30: when process_video_subtitle has returned, the temporary copy of the
\* video and the extracted audio file are deleted and the processing flag is
\* cleared.
C30_CleanupOnReturn ==
    pc = "returned" =>
        /\ "video_path" \notin temp_files
        /\ "audio_path" \notin temp_files
        /\ ~processing

====
